---- MODULE Spec2Model ----
(***************************************************************************)
(* resource-monitor (src/main.py): a polling loop that samples CPU and RAM *)
(* once a second, appends each sample to usage_<today>.csv and, when the   *)
(* wall clock reads STOP_TIME, plots the log, mails chart and log and      *)
(* removes both files.                                                     *)
(*                                                                         *)
(* The wall clock is scaled down: a second has TicksPerSec ticks, a minute *)
(* SecsPerMin seconds and a day MinsPerDay minutes.  Formatted times are   *)
(* tuples of their fields, percentages are integers in tenths of a         *)
(* percent (psutil reports one decimal).  A run is followed for            *)
(* MaxRunTicks ticks over MaxDays dates.                                   *)
(***************************************************************************)
EXTENDS Integers, Sequences, FiniteSets

VARIABLES
    SENDER,     \* os.getenv('RESOURCE_MONITOR_SENDER_MAIL')
    PASSWORD,   \* os.getenv('RESOURCE_MONITOR_SENDER_PASSWORD')
    RECEIVER,   \* the recipient list literal
    now,        \* the wall clock, in ticks
    pc,         \* position of the single thread
    today,      \* UsageMonitor.today
    logs,       \* the usage_<date>.csv files, by date
    chart,      \* the file graph.png
    outbox,     \* messages the SMTP server accepted
    err,        \* the exception that ended the process, if any
    pending,    \* history: samples appended since the last delivered report
    pre,        \* history: rows the current log held when the process started
    triggered,  \* history: calls of send_email_report, by date of the check
    startTick,  \* history: the clock when the process started
    atCall      \* history: the log as send_email_report found it when last called

vars == <<SENDER, PASSWORD, RECEIVER, now, pc, today, logs, chart, outbox, err,
          pending, pre, triggered, startTick, atCall>>

(******************************* bounds ***********************************)
TicksPerSec == 2
SecsPerMin == 2
MinsPerDay == 2
MaxDays == 2
MaxRunTicks == 12
MaxJitter == 1
MaxSendTicks == 2
MaxRows == 3
MaxLogMins == 3

(***************************** the clock **********************************)
SecsPerDay == SecsPerMin * MinsPerDay
TicksPerDay == SecsPerDay * TicksPerSec
Dates == 0 .. (MaxDays - 1)
NoDay == 0 - 1

\* strftime("%Y-%m-%d")
DateOf(t) == t \div TicksPerDay

SecOfDay(t) == (t % TicksPerDay) \div TicksPerSec

\* strftime("%H:%M:%S"): <<minute of the day, second of the minute>>
TimeOfDay(t) == <<SecOfDay(t) \div SecsPerMin, SecOfDay(t) % SecsPerMin>>

\* strftime("%Y-%m-%d %H:%M:%S")
Timestamp(t) == <<DateOf(t)>> \o TimeOfDay(t)

\* "23:59:59": the last second of the last minute of the day
STOP_TIME == <<MinsPerDay - 1, SecsPerMin - 1>>

\* time.sleep(1)
SleepSecs == 1

(************************ samples and their text **************************)
\* (ram_percent, cpu_percent) readings psutil may return, in tenths
Loads == {<<400, 100>>, <<600, 200>>}

\* str() of a float with one decimal, as csv.writer writes it: "q.r"
FormatFloat(x) == <<x \div 10, x % 10>>

\* the float pandas parses from "q.r"
ParseFloat(s) == s[1] * 10 + s[2]

\* get_usage: the sample taken at clock t under load ld
get_usage(t, ld) == [timestamp |-> Timestamp(t), ram |-> ld[1], cpu |-> ld[2]]

\* csv.writer.writerow([timestamp, ram_percent, cpu_percent])
FormatRow(s) == <<s.timestamp, FormatFloat(s.ram), FormatFloat(s.cpu)>>

\* one data row as pandas.read_csv(names=[Timestamp, RAM, CPU]) parses it
ParseRow(r) == [timestamp |-> r[1], ram |-> ParseFloat(r[2]), cpu |-> ParseFloat(r[3])]

FormatRows(ss) == [i \in 1 .. Len(ss) |-> FormatRow(ss[i])]
ParseRows(rs) == [i \in 1 .. Len(rs) |-> ParseRow(rs[i])]

(******************************* files ************************************)
\* A log file: whether it exists, whether its first line is the header
\* "Timestamp,RAM,CPU", and its data rows as text.
NoFile == [exists |-> FALSE, hdr |-> FALSE, rows |-> <<>>]
NoChart == [exists |-> FALSE, points |-> <<>>]

\* open(path, mode='a') followed by writerow: creates the file when absent
AppendRow(f, row) == [exists |-> TRUE, hdr |-> f.hdr, rows |-> Append(f.rows, row)]

\* Variant of write_to_csv: the file is named by the sample's own date
write_to_csv_by_sample_date(ls, day, s) ==
    [ls EXCEPT ![s.timestamp[1]] = AppendRow(ls[s.timestamp[1]], FormatRow(s))]

\* write_to_csv: the row goes to usage_<self.today>.csv
write_to_csv(ls, day, s) == [ls EXCEPT ![day] = AppendRow(ls[day], FormatRow(s))]

(***************************** start-up ***********************************)
\* os.getenv gives None for an unset variable
None == "None"
EnvValues == {None, "", "monitor@example.org"}
ReceiverLists == {<<>>, <<"ops@example.org">>}

Truthy(x) == x # None /\ x # ""

\* Variant of the guard: all([SENDER, PASSWORD])
ConfiguredWithoutReceiver(s, p, r) == Truthy(s) /\ Truthy(p)

\* all([SENDER, PASSWORD, RECEIVER])
Configured(s, p, r) == Truthy(s) /\ Truthy(p) /\ Len(r) > 0

\* A log left by an earlier run of the same day: one sample taken in the
\* first second of the day.
EarlierRows(t) == FormatRows(<<get_usage(DateOf(t) * TicksPerDay, <<400, 100>>)>>)

Init ==
    /\ SENDER \in EnvValues
    /\ PASSWORD \in EnvValues
    /\ RECEIVER \in ReceiverLists
    /\ now \in 0 .. (TicksPerDay - 1)
    /\ startTick = now
    /\ pc = "main"
    /\ today = NoDay
    /\ pre \in {<<>>} \cup (IF SecOfDay(now) > 0 THEN {EarlierRows(now)} ELSE {})
    /\ logs = [d \in Dates |->
                 IF d = DateOf(now) /\ pre # <<>>
                 THEN [exists |-> TRUE, hdr |-> FALSE, rows |-> pre]
                 ELSE NoFile]
    /\ chart = NoChart
    /\ outbox = <<>>
    /\ err = "none"
    /\ pending = <<>>
    /\ triggered = [d \in Dates |-> 0]
    /\ atCall = NoFile

\* __main__: the guard holds, the monitor is built and the loop entered
Start ==
    /\ pc = "main"
    /\ Configured(SENDER, PASSWORD, RECEIVER)
    /\ today' = DateOf(now)
    /\ pc' = "loop"
    /\ UNCHANGED <<SENDER, PASSWORD, RECEIVER, now, logs, chart, outbox, err,
                   pending, pre, triggered, startTick, atCall>>

\* __main__: the guard fails and the script ends
Refuse ==
    /\ pc = "main"
    /\ ~Configured(SENDER, PASSWORD, RECEIVER)
    /\ pc' = "exited"
    /\ UNCHANGED <<SENDER, PASSWORD, RECEIVER, now, today, logs, chart, outbox, err,
                   pending, pre, triggered, startTick, atCall>>

(*************************** the loop body ********************************)
\* the clock after time.sleep(1) and j ticks of processing
AfterSleep(t, j) == t + SleepSecs * TicksPerSec + j

\* datetime.now().strftime("%H:%M:%S") == STOP_TIME
IsStopTime(t) == TimeOfDay(t) = STOP_TIME

\* One iteration: get_usage, write_to_csv, sleep, compare with STOP_TIME.
Tick ==
    /\ pc = "loop"
    /\ \E ld \in Loads, j \in 0 .. MaxJitter :
        LET s == get_usage(now, ld)
            t == AfterSleep(now, j)
        IN /\ DateOf(t) \in Dates
           /\ t <= startTick + MaxRunTicks
           /\ logs' = write_to_csv(logs, today, s)
           /\ pending' = Append(pending, s)
           /\ now' = t
           /\ pc' = IF IsStopTime(t) THEN "report" ELSE "loop"
           /\ triggered' = IF IsStopTime(t)
                           THEN [triggered EXCEPT ![DateOf(t)] = @ + 1]
                           ELSE triggered
           /\ atCall' = IF IsStopTime(t) THEN logs'[today] ELSE atCall
    /\ UNCHANGED <<SENDER, PASSWORD, RECEIVER, today, chart, outbox, err, pre, startTick>>

(****************************** plot_usage ********************************)
\* pd.to_datetime(..., format='%Y-%m-%d %H:%M:%S'), in seconds
ToDatetime(ts) == (ts[1] * MinsPerDay + ts[2]) * SecsPerMin + ts[3]

\* the rule '1T' of df.resample: the bucket width in minutes
ResampleMinutes == 1

\* the bucket a timestamp falls in, numbered from the epoch
BucketOf(ts) == ToDatetime(ts) \div (ResampleMinutes * SecsPerMin)

RECURSIVE SumSeq(_)
SumSeq(xs) == IF xs = <<>> THEN 0 ELSE Head(xs) + SumSeq(Tail(xs))

\* Variant of Mean: .sum() in place of .mean()
SumNotMean(xs) == [num |-> SumSeq(xs), den |-> IF xs = <<>> THEN 0 ELSE 1]

\* .mean() of a bucket's values as the fraction num/den; 0/0 is NaN
Mean(xs) == [num |-> SumSeq(xs), den |-> Len(xs)]

InBucket(df, b) == SelectSeq(df, LAMBDA s : BucketOf(s.timestamp) = b)

\* one row of df_resampled
Point(df, b) ==
    LET ss == InBucket(df, b)
    IN [bucket |-> b,
        ram |-> Mean([i \in 1 .. Len(ss) |-> ss[i].ram]),
        cpu |-> Mean([i \in 1 .. Len(ss) |-> ss[i].cpu])]

FirstBucket(df) == CHOOSE b \in {BucketOf(df[i].timestamp) : i \in 1 .. Len(df)} :
                       \A i \in 1 .. Len(df) : b <= BucketOf(df[i].timestamp)
LastBucket(df) == CHOOSE b \in {BucketOf(df[i].timestamp) : i \in 1 .. Len(df)} :
                      \A i \in 1 .. Len(df) : b >= BucketOf(df[i].timestamp)

\* df.resample('1T').mean(): one row for every bucket from the first sample's
\* to the last sample's; an empty frame resamples to an empty frame
Resample(df) ==
    IF df = <<>> THEN <<>>
    ELSE [i \in 1 .. (LastBucket(df) - FirstBucket(df) + 1) |->
             Point(df, FirstBucket(df) + i - 1)]

\* pd.read_csv(names=...) raises FileNotFoundError on a missing file; a header
\* line is read as a data row, on which pd.to_datetime raises ValueError.  A
\* file of no rows gives an empty frame: nothing in plot_usage rejects it.
PlotFails(f) == ~f.exists \/ f.hdr

\* plot_usage: the chart written to graph.png
plot_usage(f) == [exists |-> TRUE, points |-> Resample(ParseRows(f.rows))]

(****************************** send_email ********************************)
\* df = pd.read_csv(attachment, names=...); df.to_csv(attachment, index=False):
\* the log is rewritten in place with a header line before it is attached
RewriteCsv(f) == [exists |-> TRUE, hdr |-> TRUE, rows |-> FormatRows(ParseRows(f.rows))]

LogsAfterAttach(ls, day) == [ls EXCEPT ![day] = RewriteCsv(ls[day])]

\* Variant of LogsAfterFailedSend: the removal sits in a finally clause
LogsRemovedOnFailure(ls, day) == [ls EXCEPT ![day] = NoFile]

\* the files when smtplib raises: send_email_report has no handler, line 116 is
\* not reached
LogsAfterFailedSend(ls, day) == LogsAfterAttach(ls, day)
ChartAfterFailedSend(c) == c

\* Variant of LogsAfterRemove: only the chart is removed
LogsKeptAfterRemove(ls, day) == ls

\* for attachment in attachments: os.remove(attachment)
ChartAfterRemove(c) == NoChart
LogsAfterRemove(ls, day) == [ls EXCEPT ![day] = NoFile]

(*************************** send_email_report ****************************)
\* lines 110-113: get_system_info, subject and body, plot_usage
ReportPlot ==
    /\ pc = "report"
    /\ IF PlotFails(logs[today])
       THEN /\ pc' = "crashed"
            /\ err' = "render"
            /\ chart' = chart
       ELSE /\ pc' = "send"
            /\ err' = err
            /\ chart' = plot_usage(logs[today])
    /\ UNCHANGED <<SENDER, PASSWORD, RECEIVER, now, today, logs, outbox,
                   pending, pre, triggered, startTick, atCall>>

\* line 115: send_email attaches chart and log, then talks to the SMTP server,
\* which takes e ticks and either accepts the message or raises
ReportSend ==
    /\ pc = "send"
    /\ \E accepted \in BOOLEAN, e \in 0 .. MaxSendTicks :
        /\ DateOf(now + e) \in Dates
        /\ now' = now + e
        /\ IF accepted
           THEN /\ logs' = LogsAfterAttach(logs, today)
                /\ chart' = chart
                /\ outbox' = Append(outbox,
                       [chart |-> chart.points,
                        csv |-> RewriteCsv(logs[today]),
                        held |-> ParseRows(pre),
                        since |-> pending])
                /\ pending' = <<>>
                /\ pre' = <<>>
                /\ pc' = "remove"
                /\ err' = err
           ELSE /\ logs' = LogsAfterFailedSend(logs, today)
                /\ chart' = ChartAfterFailedSend(chart)
                /\ pc' = "crashed"
                /\ err' = "transport"
                /\ UNCHANGED <<outbox, pending, pre>>
    /\ UNCHANGED <<SENDER, PASSWORD, RECEIVER, today, triggered, startTick, atCall>>

\* lines 116-118: remove both attachments, then re-read the date
ReportRemove ==
    /\ pc = "remove"
    /\ chart' = ChartAfterRemove(chart)
    /\ logs' = LogsAfterRemove(logs, today)
    /\ today' = DateOf(now)
    /\ pc' = "loop"
    /\ UNCHANGED <<SENDER, PASSWORD, RECEIVER, now, outbox, err,
                   pending, pre, triggered, startTick, atCall>>

Next == Start \/ Refuse \/ Tick \/ ReportPlot \/ ReportSend \/ ReportRemove

Spec == Init /\ [][Next]_vars

(******************* send_email_report on any log file ********************)
\* Whole seconds of the first MaxLogMins minutes, as clock readings
LogTicks == {k * TicksPerSec : k \in 0 .. (MaxLogMins * SecsPerMin - 1)}

LogSamples == {get_usage(t, ld) : t \in LogTicks, ld \in Loads}

\* Up to MaxRows samples in the order the loop takes them: later rows carry
\* later timestamps
SampleSeqs ==
    {ss \in UNION {[1 .. n -> LogSamples] : n \in 0 .. MaxRows} :
        \A i \in 1 .. (Len(ss) - 1) :
            ToDatetime(ss[i].timestamp) < ToDatetime(ss[i + 1].timestamp)}

\* The log send_email_report may find: none, or a file of such rows (none
\* included), with or without the header line an earlier send_email left
ReportLogs ==
    {NoFile} \cup
    {[exists |-> TRUE, hdr |-> h, rows |-> FormatRows(ss)] :
        h \in BOOLEAN, ss \in SampleSeqs}

\* the first tick of the second in which the clock reads STOP_TIME on date d
StopTick(d) == d * TicksPerDay + (SecsPerDay - 1) * TicksPerSec

\* The loop has just read STOP_TIME on the first date and calls
\* send_email_report; the log is whatever the file system holds.
InitReport ==
    /\ SENDER = "monitor@example.org"
    /\ PASSWORD = "monitor@example.org"
    /\ RECEIVER = <<"ops@example.org">>
    /\ now = StopTick(0)
    /\ startTick = 0
    /\ pc = "report"
    /\ today = 0
    /\ atCall \in ReportLogs
    /\ logs = [d \in Dates |-> IF d = today THEN atCall ELSE NoFile]
    /\ chart = NoChart
    /\ outbox = <<>>
    /\ err = "none"
    /\ pending = ParseRows(atCall.rows)
    /\ pre = <<>>
    /\ triggered = [d \in Dates |-> IF d = 0 THEN 1 ELSE 0]

NextReport == ReportPlot \/ ReportSend \/ ReportRemove

SpecReport == InitReport /\ [][NextReport]_vars

(******************************* claims ***********************************)
Running == pc \in {"loop", "report", "send", "remove"}

\* C1: for every date on which the loop is running when the clock reaches
\* STOP_TIME, send_email_report is called exactly once: never twice, and
\* once the date is over it has been called.
C1_ReportOncePerDate ==
    \A d \in Dates :
        /\ triggered[d] <= 1
        /\ (Running /\ startTick < StopTick(d) /\ DateOf(now) > d) => triggered[d] = 1

\* C2: every row of usage_<D>.csv carries a timestamp of date D.
C2_RowsCarryFileDate ==
    \A d \in Dates :
        \A i \in 1 .. Len(logs[d].rows) : logs[d].rows[i][1][1] = d

\* C3: when the transport fails in send_email_report, graph.png and the
\* day's log are still there and the exception reaches the caller, which
\* ends the process.
C3_TransportFailureKeepsFiles ==
    err = "transport" => (pc = "crashed" /\ chart.exists /\ logs[today].exists)

C3_Witness == err = "transport" /\ pc = "crashed" /\ Len(logs[today].rows) >= 2

\* what reading a log back gives: its lines, the header among them
ReadBack(f) == [header |-> f.hdr, samples |-> ParseRows(f.rows)]

\* C4: outside a report in progress, reading the log back gives exactly the
\* samples appended to it, in order, and no header line.
C4_LogReadsBack ==
    (pc \in {"loop", "crashed"} /\ logs[today].exists) =>
        ReadBack(logs[today]) = [header |-> FALSE, samples |-> ParseRows(pre) \o pending]

\* C5: chart and log are both there when the server accepts the message and
\* right after it, and both are gone when send_email_report returns.
C5_RemovedOnlyAfterHandOver ==
    [][/\ (pc = "send" /\ pc' = "remove") =>
            (chart.exists /\ logs[today].exists /\ chart'.exists /\ logs'[today].exists)
       /\ (pc = "remove" /\ pc' = "loop") =>
            (~chart'.exists /\ ~logs'[today].exists)]_vars

C5_Witness ==
    /\ pc = "loop"
    /\ Len(outbox) = 1
    /\ pending = <<>>
    /\ ~chart.exists
    /\ \A d \in Dates : ~logs[d].exists

MissingOrEmpty(f) == ~f.exists \/ (~f.hdr /\ f.rows = <<>>)

\* C6: called on a missing or empty log, send_email_report fails in
\* plot_usage: no chart is written, nothing is sent, the log is untouched.
C6_NoReportWithoutLog ==
    (pc \in {"send", "remove", "crashed"} /\ MissingOrEmpty(atCall)) =>
        /\ pc = "crashed"
        /\ err = "render"
        /\ ~chart.exists
        /\ outbox = <<>>
        /\ logs[today] = atCall

\* The part of C6 about a missing log, which the code does keep.
MissingLogAbortsReport ==
    (pc \in {"send", "remove", "crashed"} /\ ~atCall.exists) =>
        /\ pc = "crashed"
        /\ err = "render"
        /\ ~chart.exists
        /\ outbox = <<>>
        /\ logs[today] = atCall

Missing(x) == x \in {None, ""}

StartupLogs ==
    [d \in Dates |->
        IF d = DateOf(startTick) /\ pre # <<>>
        THEN [exists |-> TRUE, hdr |-> FALSE, rows |-> pre]
        ELSE NoFile]

\* C7: with the sender, the credential or every recipient missing the script
\* ends at once: no monitor, no sample, no file written, no mail.  With all
\* three there it enters the loop.
C7_RefusesUnlessConfigured ==
    pc # "main" =>
        IF Missing(SENDER) \/ Missing(PASSWORD) \/ RECEIVER = <<>>
        THEN /\ pc = "exited"
             /\ today = NoDay
             /\ pending = <<>>
             /\ logs = StartupLogs
             /\ ~chart.exists
             /\ outbox = <<>>
        ELSE /\ pc # "exited"
             /\ today # NoDay

C7_Witness ==
    /\ pc = "exited"
    /\ ~Missing(SENDER)
    /\ ~Missing(PASSWORD)
    /\ RECEIVER = <<>>

RECURSIVE SumOver(_, _, _)
SumOver(df, I, field) ==
    IF I = {} THEN 0
    ELSE LET i == CHOOSE j \in I : TRUE
         IN df[i][field] + SumOver(df, I \ {i}, field)

\* the rows of df stamped within minute m (minutes counted from the epoch)
RowsOfMinute(df, m) ==
    {i \in 1 .. Len(df) :
        df[i].timestamp[1] * MinsPerDay + df[i].timestamp[2] = m}

IsMeanOf(v, df, I, field) ==
    /\ v.den > 0
    /\ v.num * Cardinality(I) = SumOver(df, I, field) * v.den

C9_LoopNeverStops == pc # "crashed"

Rows(m) == {m.csv.rows[i] : i \in 1 .. Len(m.csv.rows)}

\* C10 as claimed: every delivered log holds exactly the samples appended
\* since the report delivered before it, or since the process started.
C10_ReportHoldsSamplesSinceLast ==
    \A i \in 1 .. Len(outbox) : ParseRows(outbox[i].csv.rows) = outbox[i].since

\* C10 as amended: every delivered log holds exactly the samples appended
\* since the report delivered before it; the first also holds, ahead of
\* them, the rows the day's log held when the process started.  No sample
\* is delivered twice.
C10_ReportHoldsLogSinceLast ==
    /\ \A i \in 1 .. Len(outbox) :
           /\ ParseRows(outbox[i].csv.rows) = outbox[i].held \o outbox[i].since
           /\ i > 1 => outbox[i].held = <<>>
    /\ \A i, j \in 1 .. Len(outbox) : i # j => Rows(outbox[i]) \cap Rows(outbox[j]) = {}

C10_Witness ==
    /\ Len(outbox) = 2
    /\ outbox[1].held # <<>>
    /\ outbox[1].since # <<>>
    /\ outbox[2].since # <<>>
====
